---- MODULE Spec2Model ----
(***************************************************************************)
(* Model of py_proxy.py: an HTTP/HTTPS forwarding proxy that fragments the *)
(* first TLS handshake record of a tunnel.                                 *)
(*                                                                         *)
(*   SpecStore  the filter store (blacklist / whitelist, lookups, inserts) *)
(*   SpecFrag   fragment_data run on its own against one client stream     *)
(*   Spec       the handler of one connection (CONNECT or plain HTTP) with *)
(*              the fragmenter, the two copy tasks and the auto-probe task *)
(*   SpecLife   the same handler with the access log, the idle watchdog    *)
(*              and its clock, signals and shutdown                        *)
(*   SpecProbe  the handler in auto-blacklist mode, for every way a probe  *)
(*              of the requested host could end                            *)
(*   SpecPipe   one copy task and the write buffer of its writer           *)
(*                                                                         *)
(* A str is a sequence of one-character strings, a bytes object a sequence *)
(* of integers 0..255.  A file is the sequence of its lines (a line is a   *)
(* str without its newline).                                               *)
(***************************************************************************)
EXTENDS Integers, Sequences, FiniteSets, TLC

VARIABLES
    \* ---- configuration (ProxyServer.__init__) ----
    auto_blacklist,         \* self.auto_blacklist
    whitelist_file,         \* self.whitelist_file is set (a path) or None
    \* ---- filter store ----
    blocked,                \* self.blocked: list of str
    blocked_bytes,          \* self.blocked_bytes: list of bytes
    whitelist,              \* self.whitelist: set of str
    whitelist_bytes,        \* self.whitelist_bytes: set of bytes
    blacklist_disk,         \* lines of the file self.blacklist
    whitelist_disk,         \* lines of the file self.whitelist_file
    write_failed,           \* inserts whose file append raised OSError
    last_call,              \* the store operation that returned last
    ncalls,                 \* number of store operations made so far
    \* ---- one tunnel: the client's stream and the origin ----
    client_sent,            \* every byte the client sent after its request
    cbuf,                   \* StreamReader buffer: bytes received, not yet read
    cend,                   \* after cbuf the client is silent, closes or resets
    remote_written,         \* the writes made on remote_writer, in order
    \* ---- fragment_data ----
    fpc,                    \* position inside fragment_data
    head,                   \* head
    body,                   \* body
    chunks,                 \* chunks not yet sent
    frag_ret,               \* how fragment_data ended
    blocked_connections,    \* self.blocked_connections
    \* ---- handle_connection, for one accepted connection ----
    pc,                     \* position of the handler
    host_str,               \* host_str (host_b is its encoding)
    is_wl,                  \* the local is_whitelisted
    conn_info,              \* conn_info
    client_replies,         \* status lines the handler wrote to the client
    client_written,         \* the writes the origin->client copy made
    obuf,                   \* remote_reader buffer: bytes received, not yet read
    client_writer,          \* writer: "open" or "closed"
    remote_writer,          \* remote_writer: "none", "open" or "closed"
    t1,                     \* the client->origin copy task
    t2,                     \* the origin->client copy task
    frag_errors,            \* FragmentationExceptions the handler caught
    active_connections,     \* self.active_connections (its keys)
    total_connections,      \* self.total_connections
    whitelisted_connections,\* self.whitelisted_connections
    failed_connections,     \* self.failed_connections
    probe_pc,               \* the auto-probe task this connection started
    probe_host,             \* host_bytes of that task
    origin_tls,             \* how a TLS handshake with port 443 of the host ends
    \* ---- configuration, continued ----
    log_access_file,        \* self.log_access_file is set (a path) or None
    idle_timeout,           \* self.idle_timeout
    allowed_connections,    \* self.allowed_connections: __init__ sets it, and
                            \* no other line of the program assigns it
    \* ---- handle_connection, continued ----
    method,                 \* method: "CONNECT", "GET", or "" before it is read
    access_log,             \* records written to the access log
    origin_sent,            \* every byte the origin sent into the connection
    \* ---- idle_watchdog and the clock it reads ----
    wd,                     \* the watchdog task
    now,                    \* time.monotonic(), in whole seconds
    last_activity,          \* idle.last_activity
    wd_wake,                \* when the watchdog's sleep(1) ends
    wd_fired,               \* times the watchdog closed the writers
    \* ---- signals and shutdown ----
    signals,                \* SIGINT / SIGTERM delivered so far
    sd_pending,             \* shutdown tasks created, not yet run
    sd_ignored,             \* shutdown tasks that returned at their first line
    shutdown_event,         \* self.shutdown_event.is_set()
    sd_pc,                  \* position of the shutdown body
    sd_bodies,              \* times the shutdown body was entered
    server,                 \* self.server: "listening" or "closed"
    final_stats,            \* times the final statistics were printed
    shutdown_complete,      \* self._shutdown_complete.is_set()
    \* ---- pipe: one copy task and the write buffer of its writer ----
    pipe_pc,                \* where the copy task is: "loop", "drain", "done"
    write_buffer,           \* transport.get_write_buffer_size(), in bytes
    paused,                 \* the transport has paused the writer's protocol
    nreads                  \* reads the copy task has made

storeVars == <<auto_blacklist, whitelist_file, blocked, blocked_bytes,
               whitelist, whitelist_bytes, blacklist_disk, whitelist_disk,
               write_failed, last_call, ncalls>>

streamVars == <<client_sent, cbuf, cend, remote_written, origin_sent>>

fragVars == <<fpc, head, body, chunks, frag_ret, blocked_connections>>

connVars == <<pc, host_str, is_wl, conn_info, client_replies, client_written,
              obuf, client_writer, remote_writer, t1, t2, frag_errors,
              active_connections, total_connections, whitelisted_connections,
              failed_connections>>

probeVars == <<probe_pc, probe_host, origin_tls>>

cfgVars == <<log_access_file, idle_timeout, allowed_connections>>

reqVars == <<method, access_log>>

idleVars == <<wd, now, last_activity, wd_wake, wd_fired>>

sdVars == <<signals, sd_pending, sd_ignored, shutdown_event, sd_pc, sd_bodies,
            server, final_stats, shutdown_complete>>

pipeVars == <<pipe_pc, write_buffer, paused, nreads>>

vars == <<storeVars, streamVars, fragVars, connVars, probeVars,
          cfgVars, reqVars, idleVars, sdVars, pipeVars>>

(***************************************************************************)
(* Bounds                                                                  *)
(***************************************************************************)
MaxCalls == 3       \* store operations per run
MaxBody == 3        \* longest record body enumerated byte by byte
MaxSignals == 2     \* SIGINT / SIGTERM deliveries per run
MaxTime == 3        \* seconds of a tunnel's life that are followed
MaxReads == 10      \* reads of a copy task whose write buffer is followed

(***************************************************************************)
(* Strings and bytes                                                       *)
(***************************************************************************)
Ord(c) ==
    CASE c = " " -> 32
      [] c = "#" -> 35
      [] c = "*" -> 42
      [] c = "." -> 46
      [] c = "d" -> 100
      [] c = "x" -> 120

\* str.encode("utf-8") on ASCII text
Encode(s) == [i \in 1..Len(s) |-> Ord(s[i])]

\* s[n:] for n >= 0 (0-based slice start)
SliceFrom(s, n) == IF n >= Len(s) THEN <<>> ELSE SubSeq(s, n + 1, Len(s))

\* s[:n] for n >= 0
SliceTo(s, n) == IF n >= Len(s) THEN s ELSE SubSeq(s, 1, n)

startswith(s, p) == Len(p) <= Len(s) /\ SubSeq(s, 1, Len(p)) = p

endswith(s, p) == Len(p) <= Len(s) /\ SubSeq(s, Len(s) - Len(p) + 1, Len(s)) = p

RECURSIVE LStrip(_)
LStrip(s) == IF s # <<>> /\ s[1] = " " THEN LStrip(Tail(s)) ELSE s

RECURSIVE RStrip(_)
RStrip(s) ==
    IF s # <<>> /\ s[Len(s)] = " " THEN RStrip(SubSeq(s, 1, Len(s) - 1)) ELSE s

\* str.strip()
strip(s) == RStrip(LStrip(s))

\* fnmatch.fnmatch(name, pat) for patterns whose only metacharacter is "*"
RECURSIVE fnmatch(_, _)
fnmatch(name, pat) ==
    IF pat = <<>> THEN name = <<>>
    ELSE IF pat[1] = "*"
         THEN fnmatch(name, Tail(pat))
              \/ (name # <<>> /\ fnmatch(Tail(name), pat))
         ELSE name # <<>> /\ name[1] = pat[1] /\ fnmatch(Tail(name), Tail(pat))

Contains(seq, x) == \E i \in 1..Len(seq) : seq[i] = x

SeqToSet(seq) == {seq[i] : i \in 1..Len(seq)}

(***************************************************************************)
(* Hosts and filter files                                                  *)
(***************************************************************************)
HostD == <<"d">>
HostXD == <<"x", ".", "d">>
HostXXD == <<"x", "d">>
HostWild == <<"*", ".", "d">>
HostGlob == <<"x", "*", "d">>
HostHash == <<"#", "d">>

Hosts == {HostD, HostXD, HostXXD, HostWild, HostGlob, HostHash}

CommentLine == <<"#", " ", "x">>
BlankLine == <<" ">>
PaddedLine == <<" ", "x", ".", "d", " ">>

\* contents of the blacklist file found at start-up
BlacklistFiles == { <<CommentLine, HostD>>, <<HostWild, BlankLine>> }

\* contents of the whitelist file found at start-up
WhitelistFiles == { <<PaddedLine, CommentLine>>, <<HostGlob>> }

\* the header load_whitelist writes into a whitelist file it creates
WhitelistHeader == << <<"#", " ", "d">>, <<"#", " ", "x">>, <<"#", " ", "#">> >>

\* [line.strip() for line in f if line.strip() and not line.startswith('#')]
LoadLines(lines) ==
    LET keep(l) == strip(l) # <<>> /\ ~startswith(l, <<"#">>)
        kept == SelectSeq(lines, keep)
    IN  [i \in 1..Len(kept) |-> strip(kept[i])]

EncodeAll(seq) == [i \in 1..Len(seq) |-> Encode(seq[i])]

(***************************************************************************)
(* Lookups                                                                 *)
(***************************************************************************)
\* one pattern of a list against a domain (the loop bodies of the lookups)
WildcardMatch(domain, pat) ==
    IF startswith(pat, <<"*", ".">>)
    THEN endswith(domain, SliceFrom(pat, 2)) \/ domain = SliceFrom(pat, 2)
    ELSE Contains(pat, "*") /\ fnmatch(domain, pat)

is_whitelisted(domain, domain_bytes) ==
    IF whitelist = {} /\ whitelist_bytes = {} THEN FALSE
    ELSE \/ domain \in whitelist
         \/ (domain_bytes # <<>> /\ domain_bytes \in whitelist_bytes)
         \/ \E w \in whitelist : WildcardMatch(domain, w)

\* the blacklist part of is_blacklisted, below the whitelist check
BlockedMatch(domain, domain_bytes) ==
    \/ (domain_bytes # <<>> /\ Contains(blocked_bytes, domain_bytes))
    \/ Contains(blocked, domain)
    \/ \E i \in 1..Len(blocked) : WildcardMatch(domain, blocked[i])

\* is_blacklisted without its whitelist check
is_blacklisted_no_precedence(domain, domain_bytes) ==
    BlockedMatch(domain, domain_bytes)

is_blacklisted(domain, domain_bytes) ==
    IF is_whitelisted(domain, domain_bytes) THEN FALSE
    ELSE BlockedMatch(domain, domain_bytes)

(***************************************************************************)
(* Filter store: state after construction                                  *)
(***************************************************************************)
NoCall == [op |-> "none", host |-> <<>>, host_bytes |-> <<>>]

\* load_blacklist: skipped in auto-blacklist mode; otherwise the file must
\* exist (the process exits when it does not)
load_blacklist(auto, lines) == IF auto THEN <<>> ELSE LoadLines(lines)

\* load_whitelist on an existing file
load_whitelist(lines) == SeqToSet(LoadLines(lines))

InitStore ==
    /\ auto_blacklist \in BOOLEAN
    /\ \E bf \in BlacklistFiles :
          /\ blacklist_disk = bf
          /\ blocked = load_blacklist(auto_blacklist, bf)
          /\ blocked_bytes = EncodeAll(load_blacklist(auto_blacklist, bf))
    /\ \/ \* no whitelist path given
          /\ whitelist_file = FALSE
          /\ whitelist = {}
          /\ whitelist_bytes = {}
          /\ whitelist_disk = <<>>
       \/ \* path given, file missing: created with its header, or not at all
          /\ whitelist_file = TRUE
          /\ whitelist = {}
          /\ whitelist_bytes = {}
          /\ whitelist_disk \in {WhitelistHeader, <<>>}
       \/ \* path given, file read
          /\ whitelist_file = TRUE
          /\ \E wf \in WhitelistFiles :
                /\ whitelist_disk = wf
                /\ whitelist = load_whitelist(wf)
                /\ whitelist_bytes = {Encode(d) : d \in load_whitelist(wf)}
    /\ write_failed = {}
    /\ last_call = NoCall
    /\ ncalls = 0

(***************************************************************************)
(* Filter store: inserts                                                   *)
(***************************************************************************)
\* _add_to_blacklist opening its file with mode "w" instead of "a"
add_to_blacklist_rewrite(host, host_bytes, write_ok) ==
    /\ IF ~is_blacklisted(host, host_bytes)
       THEN /\ blocked' = Append(blocked, host)
            /\ blocked_bytes' = Append(blocked_bytes, host_bytes)
            /\ IF write_ok
               THEN /\ blacklist_disk' = <<host>>
                    /\ UNCHANGED write_failed
               ELSE /\ UNCHANGED blacklist_disk
                    /\ write_failed' = write_failed \cup {<<"blacklist", host>>}
       ELSE UNCHANGED <<blocked, blocked_bytes, blacklist_disk, write_failed>>
    /\ UNCHANGED <<whitelist, whitelist_bytes, whitelist_disk>>

\* _add_to_blacklist updating the list only after a successful append
add_to_blacklist_write_first(host, host_bytes, write_ok) ==
    /\ IF ~is_blacklisted(host, host_bytes)
       THEN IF write_ok
            THEN /\ blocked' = Append(blocked, host)
                 /\ blocked_bytes' = Append(blocked_bytes, host_bytes)
                 /\ blacklist_disk' = Append(blacklist_disk, host)
                 /\ UNCHANGED write_failed
            ELSE /\ UNCHANGED <<blocked, blocked_bytes, blacklist_disk>>
                 /\ write_failed' = write_failed \cup {<<"blacklist", host>>}
       ELSE UNCHANGED <<blocked, blocked_bytes, blacklist_disk, write_failed>>
    /\ UNCHANGED <<whitelist, whitelist_bytes, whitelist_disk>>

\* _add_to_blacklist.  write_ok: the append to the file does not raise.
\* The lock is free whenever it is taken (the body under it never awaits),
\* so the whole coroutine runs without suspension.
add_to_blacklist(host, host_bytes, write_ok) ==
    /\ IF ~is_blacklisted(host, host_bytes)
       THEN /\ blocked' = Append(blocked, host)
            /\ blocked_bytes' = Append(blocked_bytes, host_bytes)
            /\ IF write_ok
               THEN /\ blacklist_disk' = Append(blacklist_disk, host)
                    /\ UNCHANGED write_failed
               ELSE /\ UNCHANGED blacklist_disk
                    /\ write_failed' = write_failed \cup {<<"blacklist", host>>}
       ELSE UNCHANGED <<blocked, blocked_bytes, blacklist_disk, write_failed>>
    /\ UNCHANGED <<whitelist, whitelist_bytes, whitelist_disk>>

\* _add_to_whitelist
add_to_whitelist(host, host_bytes, write_ok) ==
    /\ IF ~is_whitelisted(host, host_bytes)
       THEN /\ whitelist' = whitelist \cup {host}
            /\ whitelist_bytes' = whitelist_bytes \cup {host_bytes}
            /\ IF whitelist_file /\ write_ok
               THEN /\ whitelist_disk' = Append(whitelist_disk, host)
                    /\ UNCHANGED write_failed
               ELSE /\ UNCHANGED whitelist_disk
                    /\ write_failed' =
                          IF whitelist_file
                          THEN write_failed \cup {<<"whitelist", host>>}
                          ELSE write_failed
       ELSE UNCHANGED <<whitelist, whitelist_bytes, whitelist_disk, write_failed>>
    /\ UNCHANGED <<blocked, blocked_bytes, blacklist_disk>>

\* a caller awaits _add_to_blacklist(host, host_bytes)
AddBlacklist ==
    \E host \in Hosts, write_ok \in BOOLEAN :
        /\ ncalls < MaxCalls
        /\ add_to_blacklist(host, Encode(host), write_ok)
        /\ last_call' = [op |-> "add_to_blacklist", host |-> host,
                         host_bytes |-> Encode(host)]
        /\ ncalls' = ncalls + 1
        /\ UNCHANGED <<auto_blacklist, whitelist_file>>
        /\ UNCHANGED <<streamVars, fragVars, connVars, probeVars>>
        /\ UNCHANGED <<cfgVars, pipeVars, reqVars, idleVars, sdVars>>

\* a caller awaits _add_to_whitelist(host, host_bytes)
AddWhitelist ==
    \E host \in Hosts, write_ok \in BOOLEAN :
        /\ ncalls < MaxCalls
        /\ add_to_whitelist(host, Encode(host), write_ok)
        /\ last_call' = [op |-> "add_to_whitelist", host |-> host,
                         host_bytes |-> Encode(host)]
        /\ ncalls' = ncalls + 1
        /\ UNCHANGED <<auto_blacklist, whitelist_file>>
        /\ UNCHANGED <<streamVars, fragVars, connVars, probeVars>>
        /\ UNCHANGED <<cfgVars, pipeVars, reqVars, idleVars, sdVars>>

(***************************************************************************)
(* fragment_data                                                           *)
(***************************************************************************)
bufsize == 65536

\* s[a:b] for 0 <= a, 0 <= b
Slice(s, a, b) ==
    LET hi == IF b > Len(s) THEN Len(s) ELSE b
    IN  IF a >= hi THEN <<>> ELSE SubSeq(s, a + 1, hi)

Min(a, b) == IF a <= b THEN a ELSE b

Max(a, b) == IF a >= b THEN a ELSE b

\* int.from_bytes(head[3:5], "big")
rec_len(h) == h[4] * 256 + h[5]

\* frame: the synthetic record around one chunk
frame(chunk) ==
    <<22, 3, 4, Len(chunk) \div 256, Len(chunk) % 256>> \o chunk

\* body.find(b"\x00"): 0-based index of the first 0x00, -1 when there is none
find_nul(b) ==
    IF \E i \in 1..Len(b) : b[i] = 0
    THEN (CHOOSE i \in 1..Len(b) : b[i] = 0 /\ \A j \in 1..(i - 1) : b[j] # 0) - 1
    ELSE -1

\* the random split is needed: no 0x00 and more than 512 bytes
NeedsDraw(b) == find_nul(b) < 0 /\ Len(b) > 512

\* split_chunks cutting before the first 0x00 instead of behind it
split_chunks_before_nul(b, c1, c2) ==
    LET host_end == find_nul(b)
    IN  IF 0 <= host_end /\ host_end < Len(b)
        THEN <<Slice(b, 0, host_end), SliceFrom(b, host_end)>>
        ELSE IF Len(b) <= 512
             THEN LET cut1 == Max(1, Len(b) \div 2)
                  IN  <<Slice(b, 0, cut1), SliceFrom(b, cut1)>>
             ELSE LET k1 == Min(c1, Len(b))
                      k2 == Min(k1 + c2, Len(b))
                  IN  <<Slice(b, 0, k1), Slice(b, k1, k2), SliceFrom(b, k2)>>

\* split_chunks starting the last chunk one byte late
split_chunks_skip_byte(b, c1, c2) ==
    LET host_end == find_nul(b)
    IN  IF 0 <= host_end /\ host_end < Len(b)
        THEN <<Slice(b, 0, host_end + 1), SliceFrom(b, host_end + 2)>>
        ELSE IF Len(b) <= 512
             THEN LET cut1 == Max(1, Len(b) \div 2)
                  IN  <<Slice(b, 0, cut1), SliceFrom(b, cut1 + 1)>>
             ELSE LET k1 == Min(c1, Len(b))
                      k2 == Min(k1 + c2, Len(b))
                  IN  <<Slice(b, 0, k1), Slice(b, k1, k2), SliceFrom(b, k2 + 1)>>

\* the chunks of a body; c1 and c2 are the two random draws
split_chunks(b, c1, c2) ==
    LET host_end == find_nul(b)
    IN  IF 0 <= host_end /\ host_end < Len(b)
        THEN <<Slice(b, 0, host_end + 1), SliceFrom(b, host_end + 1)>>
        ELSE IF Len(b) <= 512
             THEN LET cut1 == Max(1, Len(b) \div 2)
                  IN  <<Slice(b, 0, cut1), SliceFrom(b, cut1)>>
             ELSE LET k1 == Min(c1, Len(b))
                      k2 == Min(k1 + c2, Len(b))
                  IN  <<Slice(b, 0, k1), Slice(b, k1, k2), SliceFrom(b, k2)>>

\* fragment_data is not running
FragIdle ==
    /\ fpc = "idle"
    /\ head = <<>>
    /\ body = <<>>
    /\ chunks = <<>>
    /\ frag_ret = "none"

\* fragment_data ends: it returns True or False or raises
FragEnd(ret) ==
    /\ fpc' = "done"
    /\ frag_ret' = ret

\* head = await wait_for(reader.readexactly(5), timeout=5)
FragReadHead ==
    /\ fpc = "head"
    /\ IF Len(cbuf) >= 5
       THEN /\ head' = SubSeq(cbuf, 1, 5)
            /\ cbuf' = SliceFrom(cbuf, 5)
            /\ fpc' = IF cbuf[1] # 22 THEN "rest" ELSE "body"
            /\ UNCHANGED frag_ret
       ELSE /\ UNCHANGED head
            /\ CASE cend = "eof" ->
                      \* IncompleteReadError: the partial read is dropped
                      /\ cbuf' = <<>>
                      /\ FragEnd("False")
                 [] cend = "silent" ->
                      \* TimeoutError: the bytes stay in the buffer
                      /\ UNCHANGED cbuf
                      /\ FragEnd("FragmentationException")
                 [] cend = "reset" ->
                      /\ UNCHANGED cbuf
                      /\ FragEnd("FragmentationException")
    /\ UNCHANGED <<body, chunks, blocked_connections>>
    /\ UNCHANGED <<client_sent, cend, remote_written>>
    /\ UNCHANGED <<storeVars, connVars, probeVars>>
    /\ UNCHANGED <<origin_sent, cfgVars, pipeVars, reqVars, idleVars, sdVars>>

\* the pass-through writing rest without head
FragPassThrough_drop_head ==
    /\ fpc = "rest"
    /\ \/ /\ cbuf # <<>> \/ cend = "eof"
          /\ \E write_ok \in BOOLEAN :
               IF write_ok
               THEN /\ remote_written' =
                         Append(remote_written, SliceTo(cbuf, bufsize))
                    /\ FragEnd("False")
               ELSE /\ UNCHANGED remote_written
                    /\ FragEnd("FragmentationException")
          /\ cbuf' = SliceFrom(cbuf, bufsize)
       \/ /\ cbuf = <<>>
          /\ cend = "reset"
          /\ FragEnd("FragmentationException")
          /\ UNCHANGED <<cbuf, remote_written>>
    /\ UNCHANGED <<head, body, chunks, blocked_connections>>
    /\ UNCHANGED <<client_sent, cend>>
    /\ UNCHANGED <<storeVars, connVars, probeVars>>
    /\ UNCHANGED <<origin_sent, cfgVars, pipeVars, reqVars, idleVars, sdVars>>

\* not a handshake record: rest = await reader.read(self.bufsize);
\* writer.write(head + rest); await writer.drain().  The read has no timeout:
\* with an empty buffer and a silent client it does not return.
FragPassThrough ==
    /\ fpc = "rest"
    /\ \/ /\ cbuf # <<>> \/ cend = "eof"
          /\ \E write_ok \in BOOLEAN :
               IF write_ok
               THEN /\ remote_written' =
                         Append(remote_written, head \o SliceTo(cbuf, bufsize))
                    /\ FragEnd("False")
               ELSE /\ UNCHANGED remote_written
                    /\ FragEnd("FragmentationException")
          /\ cbuf' = SliceFrom(cbuf, bufsize)
       \/ /\ cbuf = <<>>
          /\ cend = "reset"
          /\ FragEnd("FragmentationException")
          /\ UNCHANGED <<cbuf, remote_written>>
    /\ UNCHANGED <<head, body, chunks, blocked_connections>>
    /\ UNCHANGED <<client_sent, cend>>
    /\ UNCHANGED <<storeVars, connVars, probeVars>>
    /\ UNCHANGED <<origin_sent, cfgVars, pipeVars, reqVars, idleVars, sdVars>>

\* body = await wait_for(reader.readexactly(rec_len), timeout=5);
\* self.blocked_connections += 1; the chunks are computed
FragReadBody ==
    /\ fpc = "body"
    /\ IF Len(cbuf) >= rec_len(head)
       THEN LET b == SliceTo(cbuf, rec_len(head))
            IN  /\ body' = b
                /\ cbuf' = SliceFrom(cbuf, rec_len(head))
                /\ blocked_connections' = blocked_connections + 1
                /\ IF NeedsDraw(b)
                   THEN \E c1 \in 32..128, c2 \in 128..512 :
                            chunks' = split_chunks(b, c1, c2)
                   ELSE chunks' = split_chunks(b, 32, 128)
                /\ fpc' = "send"
                /\ UNCHANGED frag_ret
       ELSE /\ cbuf' = IF cend = "eof" THEN <<>> ELSE cbuf
            /\ FragEnd("FragmentationException")
            /\ UNCHANGED <<body, chunks, blocked_connections>>
    /\ UNCHANGED <<head, client_sent, cend, remote_written>>
    /\ UNCHANGED <<storeVars, connVars, probeVars>>
    /\ UNCHANGED <<origin_sent, cfgVars, pipeVars, reqVars, idleVars, sdVars>>

\* the send loop without its "if chunk" test
FragSendChunk_no_skip ==
    /\ fpc = "send"
    /\ chunks # <<>>
    /\ \E write_ok \in BOOLEAN :
           IF write_ok
           THEN /\ remote_written' =
                     Append(remote_written, frame(Head(chunks)))
                /\ chunks' = Tail(chunks)
                /\ UNCHANGED <<fpc, frag_ret>>
           ELSE /\ FragEnd("FragmentationException")
                /\ UNCHANGED <<remote_written, chunks>>
    /\ UNCHANGED <<head, body, blocked_connections>>
    /\ UNCHANGED <<client_sent, cbuf, cend>>
    /\ UNCHANGED <<storeVars, connVars, probeVars>>
    /\ UNCHANGED <<origin_sent, cfgVars, pipeVars, reqVars, idleVars, sdVars>>

\* one turn of "for chunk in chunks": an empty chunk is skipped, another one
\* is written behind its header and drained
FragSendChunk ==
    /\ fpc = "send"
    /\ chunks # <<>>
    /\ IF Head(chunks) = <<>>
       THEN /\ chunks' = Tail(chunks)
            /\ UNCHANGED <<remote_written, fpc, frag_ret>>
       ELSE \E write_ok \in BOOLEAN :
               IF write_ok
               THEN /\ remote_written' =
                         Append(remote_written, frame(Head(chunks)))
                    /\ chunks' = Tail(chunks)
                    /\ UNCHANGED <<fpc, frag_ret>>
               ELSE /\ FragEnd("FragmentationException")
                    /\ UNCHANGED <<remote_written, chunks>>
    /\ UNCHANGED <<head, body, blocked_connections>>
    /\ UNCHANGED <<client_sent, cbuf, cend>>
    /\ UNCHANGED <<storeVars, connVars, probeVars>>
    /\ UNCHANGED <<origin_sent, cfgVars, pipeVars, reqVars, idleVars, sdVars>>

\* return True
FragReturnTrue ==
    /\ fpc = "send"
    /\ chunks = <<>>
    /\ FragEnd("True")
    /\ UNCHANGED <<head, body, chunks, blocked_connections>>
    /\ UNCHANGED streamVars
    /\ UNCHANGED <<storeVars, connVars, probeVars>>
    /\ UNCHANGED <<cfgVars, pipeVars, reqVars, idleVars, sdVars>>

fragment_data ==
    \/ FragReadHead
    \/ FragPassThrough
    \/ FragReadBody
    \/ FragSendChunk
    \/ FragReturnTrue

(***************************************************************************)
(* Client streams                                                          *)
(***************************************************************************)
ByteVals == {0, 1, 22}

\* all byte strings of length n over ByteVals
BytesOfLen(n) == [1..n -> ByteVals]

SmallBodies == UNION {BytesOfLen(n) : n \in 0..MaxBody}

\* a body of n bytes, none of them 0x00 except the one at 1-based position z
BigBody(n, z) == [i \in 1..n |-> IF i = z THEN 0 ELSE 1 + (i % 255)]

BigBodies ==
    {BigBody(512, 0), BigBody(600, 0), BigBody(513, 513), BigBody(600, 300)}

\* a record header announcing n bytes
RecordHeader(type, n) == <<type, 3, 1, n \div 256, n % 256>>

CEnds == {"silent", "eof", "reset"}

\* the streams a client may send into a tunnel: a record with its body, a
\* record cut short or followed by more bytes, or a few stray bytes
SmallStreams ==
    {RecordHeader(t, n) \o b :
        t \in {22, 23}, n \in 0..(MaxBody + 1), b \in SmallBodies}
    \cup {<<>>, <<22>>, <<22, 3, 1, 0>>}

BigStreams == {RecordHeader(22, Len(b)) \o b : b \in BigBodies}

\* the client has sent one of the streams; after a long one it closes
InitStream ==
    /\ \/ client_sent \in SmallStreams /\ cend \in CEnds
       \/ client_sent \in BigStreams /\ cend = "eof"
    /\ cbuf = client_sent
    /\ remote_written = <<>>
    /\ origin_sent = <<>>

NoStream ==
    /\ client_sent = <<>>
    /\ cbuf = <<>>
    /\ cend = "silent"
    /\ remote_written = <<>>
    /\ origin_sent = <<>>

(***************************************************************************)
(* Auto-probe                                                              *)
(***************************************************************************)
\* bytes.decode("idna", "ignore"): the idna codec accepts no error handler
\* but "strict" and raises UnicodeError for any other one, unless the input
\* is empty (an empty input is decoded to "" before the codec is asked)
idna_decode_ignore(host_bytes) ==
    IF host_bytes = <<>>
    THEN [raised |-> FALSE, value |-> <<>>]
    ELSE [raised |-> TRUE, value |-> <<>>]

\* _probe_and_maybe_blacklist up to its first return.  The decoding of line
\* 420 either raises, which "except Exception: return" answers, or yields
\* the empty host, which "if not host: return" answers: the task returns
\* before its lookups and before it opens a connection.
probe_and_maybe_blacklist_reclassifies ==
    /\ probe_pc = "started"
    /\ probe_pc' = "returned"
    /\ is_wl' = TRUE
    /\ conn_info' = [conn_info EXCEPT !.whitelisted = TRUE]
    /\ UNCHANGED <<probe_host, origin_tls>>
    /\ UNCHANGED <<pc, host_str, client_replies, client_written, obuf,
                   client_writer, remote_writer, t1, t2, frag_errors,
                   active_connections, total_connections,
                   whitelisted_connections, failed_connections>>
    /\ UNCHANGED <<storeVars, streamVars, fragVars>>
    /\ UNCHANGED <<cfgVars, pipeVars, reqVars, idleVars, sdVars>>

probe_and_maybe_blacklist ==
    /\ probe_pc = "started"
    /\ LET dec == idna_decode_ignore(probe_host)
       IN  IF dec.raised
           THEN probe_pc' = "returned"
           ELSE /\ dec.value = <<>>
                /\ probe_pc' = "returned"
    /\ UNCHANGED <<probe_host, origin_tls>>
    /\ UNCHANGED <<storeVars, streamVars, fragVars, connVars>>
    /\ UNCHANGED <<cfgVars, pipeVars, reqVars, idleVars, sdVars>>

(***************************************************************************)
(* handle_connection                                                       *)
(***************************************************************************)
Conn == 1

Reply200 == "HTTP/1.1 200 Connection Established\r\n\r\n"

NoConnInfo ==
    [made |-> FALSE, whitelisted |-> FALSE, fragmented |-> FALSE, error |-> ""]

\* hosts a client asks for, in a CONNECT line or in a Host header
ConnectHosts == {HostD, HostXD}

\* what the origin sends into the connection
OriginStreams == {<<>>, <<7>>}

\* the streams of a client that sends nothing, a handshake record of one
\* byte, or the header of another record
TinyStreams == {<<>>, RecordHeader(22, 1) \o <<1>>, RecordHeader(23, 0)}

\* http_data of a plain request: "GET"
HttpData == <<71, 69, 84>>

\* the except clauses of the handler that end in the finally block
ToFinally == pc' = "finally"

\* the handler starts: the connection is entered into the registry
H_Start ==
    /\ pc = "accept"
    /\ active_connections' = active_connections \cup {Conn}
    /\ pc' = "read_req"
    /\ UNCHANGED <<host_str, is_wl, conn_info, client_replies, client_written,
                   obuf, client_writer, remote_writer, t1, t2, frag_errors,
                   total_connections, whitelisted_connections,
                   failed_connections>>
    /\ UNCHANGED <<storeVars, streamVars, fragVars, probeVars>>
    /\ UNCHANGED <<cfgVars, pipeVars, reqVars, idleVars, sdVars>>

\* the first read timed out: counted as failed, ConnectionException
H_ReadTimeout ==
    /\ pc = "read_req"
    /\ failed_connections' = failed_connections + 1
    /\ ToFinally
    /\ UNCHANGED <<host_str, is_wl, conn_info, client_replies, client_written,
                   obuf, client_writer, remote_writer, t1, t2, frag_errors,
                   active_connections, total_connections,
                   whitelisted_connections>>
    /\ UNCHANGED <<storeVars, streamVars, fragVars, probeVars>>
    /\ UNCHANGED <<cfgVars, pipeVars, reqVars, idleVars, sdVars>>

\* the first read returned nothing: return
H_ReadEmpty ==
    /\ pc = "read_req"
    /\ ToFinally
    /\ UNCHANGED <<host_str, is_wl, conn_info, client_replies, client_written,
                   obuf, client_writer, remote_writer, t1, t2, frag_errors,
                   active_connections, total_connections,
                   whitelisted_connections, failed_connections>>
    /\ UNCHANGED <<storeVars, streamVars, fragVars, probeVars>>
    /\ UNCHANGED <<cfgVars, pipeVars, reqVars, idleVars, sdVars>>

\* a request that is not a CONNECT and has no Host header: ConnectionException
\* "Missing Host header", raised before conn_info is made and not counted
H_MissingHost ==
    /\ pc = "read_req"
    /\ method' = "GET"
    /\ ToFinally
    /\ UNCHANGED <<host_str, is_wl, conn_info, client_replies, client_written,
                   obuf, client_writer, remote_writer, t1, t2, frag_errors,
                   active_connections, total_connections,
                   whitelisted_connections, failed_connections>>
    /\ UNCHANGED <<storeVars, streamVars, fragVars, probeVars>>
    /\ UNCHANGED <<access_log, cfgVars, pipeVars, idleVars, sdVars>>

\* the port is not a number: int() raises ValueError, which is counted and
\* answered with ConnectionException "Invalid host/port"
H_BadPort ==
    /\ pc = "read_req"
    /\ method' \in {"CONNECT", "GET"}
    /\ failed_connections' = failed_connections + 1
    /\ ToFinally
    /\ UNCHANGED <<host_str, is_wl, conn_info, client_replies, client_written,
                   obuf, client_writer, remote_writer, t1, t2, frag_errors,
                   active_connections, total_connections,
                   whitelisted_connections>>
    /\ UNCHANGED <<storeVars, streamVars, fragVars, probeVars>>
    /\ UNCHANGED <<access_log, cfgVars, pipeVars, idleVars, sdVars>>

\* a request for host h was read: the host is looked up in the whitelist,
\* conn_info is made, and the probe task is created in auto-blacklist mode
\* for a host that is not whitelisted, whatever the method
Classify(m, h) ==
    LET wl == is_whitelisted(h, Encode(h))
    IN  /\ method' = m
        /\ host_str' = h
        /\ is_wl' = wl
        /\ conn_info' = [made |-> TRUE, whitelisted |-> wl,
                         fragmented |-> FALSE, error |-> ""]
        /\ whitelisted_connections' =
              IF wl THEN whitelisted_connections + 1
              ELSE whitelisted_connections
        /\ IF auto_blacklist /\ ~wl
           THEN /\ probe_pc' = "started"
                /\ probe_host' = Encode(h)
                /\ UNCHANGED origin_tls
           ELSE UNCHANGED probeVars

\* "CONNECT host:port" was read
H_ReadConnect ==
    /\ pc = "read_req"
    /\ \E h \in ConnectHosts : Classify("CONNECT", h)
    /\ pc' = "reply"
    /\ UNCHANGED <<client_replies, client_written, obuf, client_writer,
                   remote_writer, t1, t2, frag_errors, active_connections,
                   total_connections, failed_connections>>
    /\ UNCHANGED <<storeVars, streamVars, fragVars>>
    /\ UNCHANGED <<access_log, cfgVars, pipeVars, idleVars, sdVars>>

\* a request of another method with a Host header was read
H_ReadHttp ==
    /\ pc = "read_req"
    /\ \E h \in ConnectHosts : Classify("GET", h)
    /\ pc' = "dial_http"
    /\ UNCHANGED <<client_replies, client_written, obuf, client_writer,
                   remote_writer, t1, t2, frag_errors, active_connections,
                   total_connections, failed_connections>>
    /\ UNCHANGED <<storeVars, streamVars, fragVars>>
    /\ UNCHANGED <<access_log, cfgVars, pipeVars, idleVars, sdVars>>

\* the 200 reply is written and drained.  A failure is counted, recorded and
\* re-raised; "except Exception" then counts it again and overwrites the
\* recorded error.
H_Reply200 ==
    /\ pc = "reply"
    /\ \/ /\ client_replies' = Append(client_replies, Reply200)
          /\ pc' = "dial"
          /\ UNCHANGED <<conn_info, failed_connections>>
       \/ /\ failed_connections' = failed_connections + 2
          /\ conn_info' = [conn_info EXCEPT !.error = "Unexpected error"]
          /\ ToFinally
          /\ UNCHANGED client_replies
    /\ UNCHANGED <<host_str, is_wl, client_written, obuf, client_writer,
                   remote_writer, t1, t2, frag_errors, active_connections,
                   total_connections, whitelisted_connections>>
    /\ UNCHANGED <<storeVars, streamVars, fragVars, probeVars>>
    /\ UNCHANGED <<cfgVars, pipeVars, reqVars, idleVars, sdVars>>

\* open_connection succeeded.  From here on the two peers have sent what they
\* are going to send into the connection: the client one of streams.
DialSucceeded(streams) ==
    /\ remote_writer' = "open"
    /\ \E st \in streams, e \in CEnds, o \in OriginStreams :
          /\ client_sent' = st
          /\ cbuf' = st
          /\ cend' = e
          /\ obuf' = o
          /\ origin_sent' = o
    /\ UNCHANGED <<conn_info, failed_connections, remote_written>>

DialFailed_count_twice ==
    /\ \E err \in {"Remote connection timeout", "Remote connection failed"} :
          conn_info' = [conn_info EXCEPT !.error = err]
    /\ failed_connections' = failed_connections + 2
    /\ ToFinally
    /\ UNCHANGED <<remote_writer, obuf, streamVars>>

\* open_connection timed out or raised OSError: counted, recorded, answered
\* with ConnectionException; nothing is written to the client
DialFailed ==
    /\ \E err \in {"Remote connection timeout", "Remote connection failed"} :
          conn_info' = [conn_info EXCEPT !.error = err]
    /\ failed_connections' = failed_connections + 1
    /\ ToFinally
    /\ UNCHANGED <<remote_writer, obuf, streamVars>>

\* CONNECT: the origin is dialled with a 5 s timeout
H_Dial(streams) ==
    /\ pc = "dial"
    /\ \/ DialSucceeded(streams) /\ pc' = "fragment"
       \/ DialFailed
    /\ UNCHANGED <<host_str, is_wl, client_replies, client_written,
                   client_writer, t1, t2, frag_errors, active_connections,
                   total_connections, whitelisted_connections>>
    /\ UNCHANGED <<storeVars, fragVars, probeVars>>
    /\ UNCHANGED <<cfgVars, pipeVars, reqVars, idleVars, sdVars>>

\* other methods: the origin is dialled with a 5 s timeout
H_DialHttp(streams) ==
    /\ pc = "dial_http"
    /\ \/ DialSucceeded(streams) /\ pc' = "forward"
       \/ DialFailed
    /\ UNCHANGED <<host_str, is_wl, client_replies, client_written,
                   client_writer, t1, t2, frag_errors, active_connections,
                   total_connections, whitelisted_connections>>
    /\ UNCHANGED <<storeVars, fragVars, probeVars>>
    /\ UNCHANGED <<cfgVars, pipeVars, reqVars, idleVars, sdVars>>

\* other methods: http_data is written to the origin and drained.  A failure
\* is counted, recorded and re-raised; "except asyncio.TimeoutError" or
\* "except Exception" then counts it again and overwrites the recorded error.
H_Forward ==
    /\ pc = "forward"
    /\ \/ /\ remote_written' = Append(remote_written, HttpData)
          /\ pc' = "start_pipes"
          /\ UNCHANGED <<conn_info, failed_connections>>
       \/ /\ failed_connections' = failed_connections + 2
          /\ \E err \in {"Timeout", "Unexpected error"} :
                conn_info' = [conn_info EXCEPT !.error = err]
          /\ ToFinally
          /\ UNCHANGED remote_written
    /\ UNCHANGED <<client_sent, cbuf, cend, origin_sent>>
    /\ UNCHANGED <<host_str, is_wl, client_replies, client_written, obuf,
                   client_writer, remote_writer, t1, t2, frag_errors,
                   active_connections, total_connections,
                   whitelisted_connections>>
    /\ UNCHANGED <<storeVars, fragVars, probeVars>>
    /\ UNCHANGED <<cfgVars, pipeVars, reqVars, idleVars, sdVars>>

H_CallFragment_always ==
    /\ pc = "fragment"
    /\ fpc' = "head"
    /\ pc' = "in_fragment"
    /\ UNCHANGED <<head, body, chunks, frag_ret, blocked_connections>>
    /\ UNCHANGED <<host_str, is_wl, conn_info, client_replies, client_written,
                   obuf, client_writer, remote_writer, t1, t2, frag_errors,
                   active_connections, total_connections,
                   whitelisted_connections, failed_connections>>
    /\ UNCHANGED <<storeVars, streamVars, probeVars>>
    /\ UNCHANGED <<cfgVars, pipeVars, reqVars, idleVars, sdVars>>

\* "if not is_whitelisted": fragment_data is awaited, or skipped
H_CallFragment ==
    /\ pc = "fragment"
    /\ IF ~is_wl
       THEN /\ fpc' = "head"
            /\ pc' = "in_fragment"
       ELSE /\ pc' = "start_pipes"
            /\ UNCHANGED fpc
    /\ UNCHANGED <<head, body, chunks, frag_ret, blocked_connections>>
    /\ UNCHANGED <<host_str, is_wl, conn_info, client_replies, client_written,
                   obuf, client_writer, remote_writer, t1, t2, frag_errors,
                   active_connections, total_connections,
                   whitelisted_connections, failed_connections>>
    /\ UNCHANGED <<storeVars, streamVars, probeVars>>
    /\ UNCHANGED <<cfgVars, pipeVars, reqVars, idleVars, sdVars>>

\* fragment_data has ended: its result goes into conn_info.fragmented; a
\* FragmentationException is caught and logged, and the handler goes on
H_FragmentReturned ==
    /\ pc = "in_fragment"
    /\ fpc = "done"
    /\ IF frag_ret = "FragmentationException"
       THEN /\ frag_errors' = frag_errors + 1
            /\ UNCHANGED conn_info
       ELSE /\ conn_info' = [conn_info EXCEPT !.fragmented = (frag_ret = "True")]
            /\ UNCHANGED frag_errors
    /\ pc' = "start_pipes"
    /\ UNCHANGED <<host_str, is_wl, client_replies, client_written, obuf,
                   client_writer, remote_writer, t1, t2, active_connections,
                   total_connections, whitelisted_connections,
                   failed_connections>>
    /\ UNCHANGED <<storeVars, streamVars, fragVars, probeVars>>
    /\ UNCHANGED <<cfgVars, pipeVars, reqVars, idleVars, sdVars>>

\* self.total_connections += 1, idle = IdleState(), and the two copy tasks
\* and the watchdog are created and entered into the connection's task list
H_StartPipes ==
    /\ pc = "start_pipes"
    /\ total_connections' = total_connections + 1
    /\ last_activity' = now
    /\ t1' = "run"
    /\ t2' = "run"
    /\ wd' = "run"
    /\ pc' = "piping"
    /\ UNCHANGED <<host_str, is_wl, conn_info, client_replies, client_written,
                   obuf, client_writer, remote_writer, frag_errors,
                   active_connections, whitelisted_connections,
                   failed_connections>>
    /\ UNCHANGED <<storeVars, streamVars, fragVars, probeVars>>
    /\ UNCHANGED <<now, wd_wake, wd_fired, cfgVars, pipeVars, reqVars, sdVars>>

\* pipe "out", one turn of the loop: data is read, idle.last_activity is set,
\* the data is written
PipeOutCopy ==
    /\ t1 = "run"
    /\ remote_writer = "open"
    /\ cbuf # <<>>
    /\ remote_written' = Append(remote_written, SliceTo(cbuf, bufsize))
    /\ cbuf' = SliceFrom(cbuf, bufsize)
    /\ last_activity' = now
    /\ UNCHANGED <<client_sent, cend, origin_sent>>
    /\ UNCHANGED <<storeVars, fragVars, connVars, probeVars>>
    /\ UNCHANGED <<wd, now, wd_wake, wd_fired, cfgVars, pipeVars, reqVars, sdVars>>

\* pipe "out" leaves its loop (shutdown_event set, writer closed, end of
\* stream, 30 s without data, read or write error) and closes its writer
PipeOutEnd ==
    /\ t1 = "run"
    /\ IF remote_writer = "open" /\ cbuf # <<>>
       THEN cbuf' = SliceFrom(cbuf, bufsize)    \* data was read, the write raised
       ELSE UNCHANGED cbuf
    /\ remote_writer' = "closed"
    /\ t1' = "done"
    /\ UNCHANGED <<client_sent, cend, remote_written, origin_sent>>
    /\ UNCHANGED <<pc, host_str, is_wl, conn_info, client_replies,
                   client_written, obuf, client_writer, t2, frag_errors,
                   active_connections, total_connections,
                   whitelisted_connections, failed_connections>>
    /\ UNCHANGED <<storeVars, fragVars, probeVars>>
    /\ UNCHANGED <<cfgVars, pipeVars, reqVars, idleVars, sdVars>>

\* pipe "in", one turn of the loop: data is read, idle.last_activity is set,
\* the data is written
PipeInCopy ==
    /\ t2 = "run"
    /\ client_writer = "open"
    /\ obuf # <<>>
    /\ client_written' = Append(client_written, SliceTo(obuf, bufsize))
    /\ obuf' = SliceFrom(obuf, bufsize)
    /\ last_activity' = now
    /\ UNCHANGED <<pc, host_str, is_wl, conn_info, client_replies,
                   client_writer, remote_writer, t1, t2, frag_errors,
                   active_connections, total_connections,
                   whitelisted_connections, failed_connections>>
    /\ UNCHANGED <<storeVars, streamVars, fragVars, probeVars>>
    /\ UNCHANGED <<wd, now, wd_wake, wd_fired, cfgVars, pipeVars, reqVars, sdVars>>

\* pipe "in" leaves its loop and closes its writer
PipeInEnd ==
    /\ t2 = "run"
    /\ IF client_writer = "open" /\ obuf # <<>>
       THEN obuf' = SliceFrom(obuf, bufsize)    \* data was read, the write raised
       ELSE UNCHANGED obuf
    /\ client_writer' = "closed"
    /\ t2' = "done"
    /\ UNCHANGED <<pc, host_str, is_wl, conn_info, client_replies,
                   client_written, remote_writer, t1, frag_errors,
                   active_connections, total_connections,
                   whitelisted_connections, failed_connections>>
    /\ UNCHANGED <<storeVars, streamVars, fragVars, probeVars>>
    /\ UNCHANGED <<cfgVars, pipeVars, reqVars, idleVars, sdVars>>

\* asyncio.wait(..., FIRST_COMPLETED) returns: a copy task has ended or was
\* cancelled
H_FirstCompleted ==
    /\ pc = "piping"
    /\ t1 \in {"done", "cancelled"} \/ t2 \in {"done", "cancelled"}
    /\ ToFinally
    /\ UNCHANGED <<host_str, is_wl, conn_info, client_replies, client_written,
                   obuf, client_writer, remote_writer, t1, t2, frag_errors,
                   active_connections, total_connections,
                   whitelisted_connections, failed_connections>>
    /\ UNCHANGED <<storeVars, streamVars, fragVars, probeVars>>
    /\ UNCHANGED <<cfgVars, pipeVars, reqVars, idleVars, sdVars>>

\* the handler task is cancelled while it awaits; only main() does that,
\* in its last sweep over all tasks after ProxyApplication.run has seen
\* _shutdown_complete.  CancelledError is re-raised through the finally
\* block; a fragment_data in progress ends with it.
H_Cancelled ==
    /\ shutdown_complete
    /\ pc \in {"read_req", "reply", "dial", "dial_http", "forward",
               "in_fragment", "piping"}
    /\ ToFinally
    /\ IF pc = "in_fragment" /\ fpc # "done"
       THEN FragEnd("CancelledError")
       ELSE UNCHANGED <<fpc, frag_ret>>
    /\ UNCHANGED <<head, body, chunks, blocked_connections>>
    /\ UNCHANGED <<host_str, is_wl, conn_info, client_replies, client_written,
                   obuf, client_writer, remote_writer, t1, t2, frag_errors,
                   active_connections, total_connections,
                   whitelisted_connections, failed_connections>>
    /\ UNCHANGED <<storeVars, streamVars, probeVars>>
    /\ UNCHANGED <<cfgVars, pipeVars, reqVars, idleVars, sdVars>>

\* the access-log record of the finally block is written
LogsRecord == conn_info.made /\ log_access_file

H_Finally_keeps_watchdog ==
    /\ pc = "finally"
    /\ access_log' = IF LogsRecord THEN access_log + 1 ELSE access_log
    /\ t1' = IF t1 = "run" THEN "cancelled" ELSE t1
    /\ t2' = IF t2 = "run" THEN "cancelled" ELSE t2
    /\ wd' = wd
    /\ active_connections' = active_connections \ {Conn}
    /\ client_writer' = "closed"
    /\ remote_writer' = IF remote_writer = "none" THEN "none" ELSE "closed"
    /\ pc' = "closed"
    /\ UNCHANGED <<host_str, is_wl, conn_info, client_replies, client_written,
                   obuf, frag_errors, total_connections,
                   whitelisted_connections, failed_connections>>
    /\ UNCHANGED <<storeVars, streamVars, fragVars, probeVars>>
    /\ UNCHANGED <<method, now, last_activity, wd_wake, wd_fired, cfgVars, pipeVars,
                   sdVars>>

\* the finally block: the access-log record, running tasks are cancelled and
\* awaited (a cancelled pipe closes its writer), the registry entry is
\* removed, both writers are closed
H_Finally ==
    /\ pc = "finally"
    /\ access_log' = IF LogsRecord THEN access_log + 1 ELSE access_log
    /\ t1' = IF t1 = "run" THEN "cancelled" ELSE t1
    /\ t2' = IF t2 = "run" THEN "cancelled" ELSE t2
    /\ wd' = IF wd \in {"run", "sleeping"} THEN "cancelled" ELSE wd
    /\ active_connections' = active_connections \ {Conn}
    /\ client_writer' = "closed"
    /\ remote_writer' = IF remote_writer = "none" THEN "none" ELSE "closed"
    /\ pc' = "closed"
    /\ UNCHANGED <<host_str, is_wl, conn_info, client_replies, client_written,
                   obuf, frag_errors, total_connections,
                   whitelisted_connections, failed_connections>>
    /\ UNCHANGED <<storeVars, streamVars, fragVars, probeVars>>
    /\ UNCHANGED <<method, now, last_activity, wd_wake, wd_fired, cfgVars, pipeVars,
                   sdVars>>

handle_connection(streams) ==
    \/ H_Start
    \/ H_ReadTimeout
    \/ H_ReadEmpty
    \/ H_MissingHost
    \/ H_BadPort
    \/ H_ReadConnect
    \/ H_ReadHttp
    \/ H_Reply200
    \/ H_Dial(streams)
    \/ H_DialHttp(TinyStreams)
    \/ H_Forward
    \/ H_CallFragment
    \/ H_FragmentReturned
    \/ H_StartPipes
    \/ H_FirstCompleted
    \/ H_Finally

pipe == PipeOutCopy \/ PipeOutEnd \/ PipeInCopy \/ PipeInEnd

(***************************************************************************)
(* pipe: the write buffer                                                  *)
(***************************************************************************)
high_water == 512 * 1024

\* the write-buffer limits of an asyncio transport, which the program leaves
\* at their defaults: the transport pauses the protocol when its buffer has
\* grown above the high mark and resumes it when the buffer has shrunk to
\* the low mark, and writer.drain() waits exactly while the protocol is
\* paused
transport_high == 64 * 1024
transport_low == 16 * 1024

\* lengths reader.read(self.bufsize) returns when there is data
ReadSizes == {1, bufsize \div 2, bufsize}

\* no copy task is looked at
PipeIdle ==
    /\ pipe_pc = "none"
    /\ write_buffer = 0
    /\ paused = FALSE
    /\ nreads = 0

\* one turn of the loop from the read to the test of the buffer: n bytes are
\* read and written; a transport with an empty buffer may send them at once,
\* otherwise they are appended to the buffer; "await writer.drain()" follows
\* when the buffer is above self.high_water
PipeTurn_no_drain ==
    /\ pipe_pc = "loop"
    /\ nreads < MaxReads
    /\ \E n \in ReadSizes :
       \E sent \in (IF write_buffer = 0 THEN {0, n} ELSE {0}) :
          LET size == write_buffer + n - sent
          IN  /\ write_buffer' = size
              /\ paused' = (paused \/ size > transport_high)
              /\ pipe_pc' = "loop"
    /\ nreads' = nreads + 1
    /\ UNCHANGED <<storeVars, streamVars, fragVars, connVars, probeVars>>
    /\ UNCHANGED <<cfgVars, reqVars, idleVars, sdVars>>

PipeTurn ==
    /\ pipe_pc = "loop"
    /\ nreads < MaxReads
    /\ \E n \in ReadSizes :
       \E sent \in (IF write_buffer = 0 THEN {0, n} ELSE {0}) :
          LET size == write_buffer + n - sent
          IN  /\ write_buffer' = size
              /\ paused' = (paused \/ size > transport_high)
              /\ pipe_pc' = IF size > high_water THEN "drain" ELSE "loop"
    /\ nreads' = nreads + 1
    /\ UNCHANGED <<storeVars, streamVars, fragVars, connVars, probeVars>>
    /\ UNCHANGED <<cfgVars, reqVars, idleVars, sdVars>>

\* writer.drain() returns: the protocol is not paused
PipeDrained ==
    /\ pipe_pc = "drain"
    /\ ~paused
    /\ pipe_pc' = "loop"
    /\ UNCHANGED <<write_buffer, paused, nreads>>
    /\ UNCHANGED <<storeVars, streamVars, fragVars, connVars, probeVars>>
    /\ UNCHANGED <<cfgVars, reqVars, idleVars, sdVars>>

\* the copy task leaves its loop: end of stream, 30 s without data, a read
\* error, a writer that is closing, shutdown_event, or an exception or a
\* cancellation in drain()
PipeBreak ==
    /\ pipe_pc \in {"loop", "drain"}
    /\ pipe_pc' = "done"
    /\ UNCHANGED <<write_buffer, paused, nreads>>
    /\ UNCHANGED <<storeVars, streamVars, fragVars, connVars, probeVars>>
    /\ UNCHANGED <<cfgVars, reqVars, idleVars, sdVars>>

\* the socket takes bytes of the buffer: half a chunk, a chunk, or all
TransportSend ==
    /\ write_buffer > 0
    /\ \E k \in {bufsize \div 2, bufsize, write_buffer} :
          /\ k <= write_buffer
          /\ write_buffer' = write_buffer - k
          /\ paused' = (paused /\ write_buffer - k > transport_low)
    /\ UNCHANGED <<pipe_pc, nreads>>
    /\ UNCHANGED <<storeVars, streamVars, fragVars, connVars, probeVars>>
    /\ UNCHANGED <<cfgVars, reqVars, idleVars, sdVars>>

pipe_write_buffer == PipeTurn \/ PipeDrained \/ PipeBreak

(***************************************************************************)
(* idle_watchdog                                                           *)
(***************************************************************************)
\* idle timeouts a proxy is started with
IdleTimeouts == {-1, 0, 1}

idle_expired_late(t, la, timeout) == t - la > timeout + 1

\* time.monotonic() - idle.last_activity > self.idle_timeout
idle_expired(t, la, timeout) == t - la > timeout

\* "if not self.idle_timeout or self.idle_timeout <= 0: return"
WdDisabled ==
    /\ wd = "run"
    /\ idle_timeout <= 0
    /\ wd' = "done"
    /\ UNCHANGED <<now, last_activity, wd_wake, wd_fired>>
    /\ UNCHANGED <<storeVars, streamVars, fragVars, connVars, probeVars>>
    /\ UNCHANGED <<cfgVars, pipeVars, reqVars, sdVars>>

\* the head of the loop: it is left when shutdown_event is set, else the
\* watchdog sleeps for a second
WdLoop ==
    /\ wd = "run"
    /\ idle_timeout > 0
    /\ IF shutdown_event
       THEN /\ wd' = "done"
            /\ UNCHANGED wd_wake
       ELSE /\ wd' = "sleeping"
            /\ wd_wake' = now + 1
    /\ UNCHANGED <<now, last_activity, wd_fired>>
    /\ UNCHANGED <<storeVars, streamVars, fragVars, connVars, probeVars>>
    /\ UNCHANGED <<cfgVars, pipeVars, reqVars, sdVars>>

\* the writers that are alive are closed
CloseWriters ==
    /\ client_writer' = "closed"
    /\ remote_writer' = IF remote_writer = "none" THEN "none" ELSE "closed"

WdCheck_no_break ==
    /\ wd = "sleeping"
    /\ now >= wd_wake
    /\ IF idle_expired(now, last_activity, idle_timeout)
       THEN /\ CloseWriters
            /\ wd_fired' = wd_fired + 1
            /\ wd' = "run"
       ELSE /\ wd' = "run"
            /\ UNCHANGED <<client_writer, remote_writer, wd_fired>>
    /\ UNCHANGED <<now, last_activity, wd_wake>>
    /\ UNCHANGED <<pc, host_str, is_wl, conn_info, client_replies,
                   client_written, obuf, t1, t2, frag_errors,
                   active_connections, total_connections,
                   whitelisted_connections, failed_connections>>
    /\ UNCHANGED <<storeVars, streamVars, fragVars, probeVars>>
    /\ UNCHANGED <<cfgVars, pipeVars, reqVars, sdVars>>

\* the sleep is over: when the connection has been idle for more than
\* idle_timeout both writers are closed and the loop is left
WdCheck ==
    /\ wd = "sleeping"
    /\ now >= wd_wake
    /\ IF idle_expired(now, last_activity, idle_timeout)
       THEN /\ CloseWriters
            /\ wd_fired' = wd_fired + 1
            /\ wd' = "done"
       ELSE /\ wd' = "run"
            /\ UNCHANGED <<client_writer, remote_writer, wd_fired>>
    /\ UNCHANGED <<now, last_activity, wd_wake>>
    /\ UNCHANGED <<pc, host_str, is_wl, conn_info, client_replies,
                   client_written, obuf, t1, t2, frag_errors,
                   active_connections, total_connections,
                   whitelisted_connections, failed_connections>>
    /\ UNCHANGED <<storeVars, streamVars, fragVars, probeVars>>
    /\ UNCHANGED <<cfgVars, pipeVars, reqVars, sdVars>>

\* a second passes while the watchdog sleeps.  The clock is read by the
\* watchdog only; a task that is ready to run runs before the clock moves.
Tick ==
    /\ wd = "sleeping"
    /\ now < wd_wake
    /\ now < MaxTime
    /\ now' = now + 1
    /\ UNCHANGED <<wd, last_activity, wd_wake, wd_fired>>
    /\ UNCHANGED <<storeVars, streamVars, fragVars, connVars, probeVars>>
    /\ UNCHANGED <<cfgVars, pipeVars, reqVars, sdVars>>

idle_watchdog == WdDisabled \/ WdLoop \/ WdCheck

(***************************************************************************)
(* Signals and shutdown                                                    *)
(***************************************************************************)
\* signal_handler: a shutdown task is created unless shutdown_event is set
signal_handler ==
    /\ signals < MaxSignals
    /\ signals' = signals + 1
    /\ sd_pending' = IF shutdown_event THEN sd_pending ELSE sd_pending + 1
    /\ UNCHANGED <<sd_ignored, shutdown_event, sd_pc, sd_bodies, server,
                   final_stats, shutdown_complete>>
    /\ UNCHANGED <<storeVars, streamVars, fragVars, connVars, probeVars>>
    /\ UNCHANGED <<cfgVars, pipeVars, reqVars, idleVars>>

SdStart_no_check ==
    /\ sd_pending > 0
    /\ sd_pending' = sd_pending - 1
    /\ shutdown_event' = TRUE
    /\ sd_bodies' = sd_bodies + 1
    /\ server' = "closed"
    /\ sd_pc' = "closing"
    /\ UNCHANGED sd_ignored
    /\ UNCHANGED <<signals, final_stats, shutdown_complete>>
    /\ UNCHANGED <<storeVars, streamVars, fragVars, connVars, probeVars>>
    /\ UNCHANGED <<cfgVars, pipeVars, reqVars, idleVars>>

\* a shutdown task runs up to its first await: it returns when
\* shutdown_event is set; else it sets the event and closes the listener
\* (Server.wait_closed returns once the listening sockets are closed)
SdStart ==
    /\ sd_pending > 0
    /\ sd_pending' = sd_pending - 1
    /\ IF shutdown_event
       THEN /\ sd_ignored' = sd_ignored + 1
            /\ UNCHANGED <<shutdown_event, sd_bodies, server, sd_pc>>
       ELSE /\ shutdown_event' = TRUE
            /\ sd_bodies' = sd_bodies + 1
            /\ server' = "closed"
            /\ sd_pc' = "closing"
            /\ UNCHANGED sd_ignored
    /\ UNCHANGED <<signals, final_stats, shutdown_complete>>
    /\ UNCHANGED <<storeVars, streamVars, fragVars, connVars, probeVars>>
    /\ UNCHANGED <<cfgVars, pipeVars, reqVars, idleVars>>

\* the tasks in the lists of the registry are registered
Registered == Conn \in active_connections /\ pc \in {"piping", "finally"}

\* every task in the lists of the registry that is not done is cancelled and
\* awaited: a cancelled pipe closes its writer, a cancelled watchdog returns
SdCancelTasks ==
    /\ sd_pc = "closing"
    /\ sd_pc' = "gather"
    /\ IF Registered
       THEN /\ t1' = IF t1 = "run" THEN "cancelled" ELSE t1
            /\ t2' = IF t2 = "run" THEN "cancelled" ELSE t2
            /\ wd' = IF wd \in {"run", "sleeping"} THEN "cancelled" ELSE wd
            /\ remote_writer' = IF t1 = "run" THEN "closed" ELSE remote_writer
            /\ client_writer' = IF t2 = "run" THEN "closed" ELSE client_writer
       ELSE UNCHANGED <<t1, t2, wd, remote_writer, client_writer>>
    /\ UNCHANGED <<signals, sd_pending, sd_ignored, shutdown_event, sd_bodies,
                   server, final_stats, shutdown_complete>>
    /\ UNCHANGED <<pc, host_str, is_wl, conn_info, client_replies,
                   client_written, obuf, frag_errors, active_connections,
                   total_connections, whitelisted_connections,
                   failed_connections>>
    /\ UNCHANGED <<now, last_activity, wd_wake, wd_fired>>
    /\ UNCHANGED <<storeVars, streamVars, fragVars, probeVars>>
    /\ UNCHANGED <<cfgVars, pipeVars, reqVars>>

\* the registry is cleared, the final statistics are printed and
\* _shutdown_complete is set
SdFinish ==
    /\ sd_pc = "gather"
    /\ sd_pc' = "done"
    /\ active_connections' = {}
    /\ final_stats' = final_stats + 1
    /\ shutdown_complete' = TRUE
    /\ UNCHANGED <<signals, sd_pending, sd_ignored, shutdown_event, sd_bodies,
                   server>>
    /\ UNCHANGED <<pc, host_str, is_wl, conn_info, client_replies,
                   client_written, obuf, client_writer, remote_writer, t1, t2,
                   frag_errors, total_connections, whitelisted_connections,
                   failed_connections>>
    /\ UNCHANGED <<storeVars, streamVars, fragVars, probeVars>>
    /\ UNCHANGED <<cfgVars, pipeVars, reqVars, idleVars>>

shutdown == SdStart \/ SdCancelTasks \/ SdFinish

\* no connection has been accepted
ConnIdle ==
    /\ host_str = <<>>
    /\ is_wl = FALSE
    /\ conn_info = NoConnInfo
    /\ client_replies = <<>>
    /\ client_written = <<>>
    /\ obuf = <<>>
    /\ client_writer = "open"
    /\ remote_writer = "none"
    /\ t1 = "none"
    /\ t2 = "none"
    /\ frag_errors = 0
    /\ active_connections = {}
    /\ total_connections = 0
    /\ allowed_connections = 0
    /\ whitelisted_connections = 0
    /\ failed_connections = 0
    /\ probe_pc = "none"
    /\ probe_host = <<>>
    /\ method = ""
    /\ access_log = 0
    /\ wd = "none"
    /\ now = 0
    /\ last_activity = 0
    /\ wd_wake = 0
    /\ wd_fired = 0

\* no signal has been delivered: the listener is open
NoShutdown ==
    /\ signals = 0
    /\ sd_pending = 0
    /\ sd_ignored = 0
    /\ shutdown_event = FALSE
    /\ sd_pc = "none"
    /\ sd_bodies = 0
    /\ server = "listening"
    /\ final_stats = 0
    /\ shutdown_complete = FALSE

\* the defaults of ProxyServer.__init__: no access log, no idle timeout
DefaultConfig ==
    /\ log_access_file = FALSE
    /\ idle_timeout = 0

\* the ways open_connection(host, 443, ssl=ctx) of a probe can end: the
\* handshake completes, asyncio.TimeoutError, ssl.SSLError or
\* ssl.CertificateError, OSError or ConnectionError, any other exception
ProbeOutcomes == {"handshake", "timeout", "ssl_error", "os_error", "other_error"}

\* port 443 of the requested host completes a TLS handshake
HealthyOrigin == origin_tls = "handshake"

(***************************************************************************)
(* Specifications                                                          *)
(***************************************************************************)
NextStore == AddBlacklist \/ AddWhitelist

InitStoreOnly ==
    /\ InitStore
    /\ NoStream
    /\ FragIdle
    /\ blocked_connections = 0
    /\ ConnIdle
    /\ NoShutdown
    /\ PipeIdle
    /\ DefaultConfig
    /\ HealthyOrigin
    /\ pc = "none"

SpecStore == InitStoreOnly /\ [][NextStore]_vars

\* a store that stays as it is while something else is examined
FixedStore ==
    /\ auto_blacklist = FALSE
    /\ whitelist_file = FALSE
    /\ blocked = <<>>
    /\ blocked_bytes = <<>>
    /\ whitelist = {}
    /\ whitelist_bytes = {}
    /\ blacklist_disk = <<>>
    /\ whitelist_disk = <<>>
    /\ write_failed = {}
    /\ last_call = NoCall
    /\ ncalls = 0

\* fragment_data called on a fresh tunnel
InitFrag ==
    /\ FixedStore
    /\ InitStream
    /\ fpc = "head"
    /\ head = <<>>
    /\ body = <<>>
    /\ chunks = <<>>
    /\ frag_ret = "none"
    /\ blocked_connections = 0
    /\ ConnIdle
    /\ NoShutdown
    /\ PipeIdle
    /\ DefaultConfig
    /\ HealthyOrigin
    /\ pc = "none"

NextFrag == fragment_data

SpecFrag == InitFrag /\ [][NextFrag]_vars

\* one connection is accepted by a proxy whose whitelist file names x.d
Accepted ==
    /\ auto_blacklist \in BOOLEAN
    /\ whitelist_file = TRUE
    /\ blacklist_disk = <<>>
    /\ blocked = load_blacklist(auto_blacklist, <<>>)
    /\ blocked_bytes = EncodeAll(load_blacklist(auto_blacklist, <<>>))
    /\ whitelist_disk = <<PaddedLine, CommentLine>>
    /\ whitelist = load_whitelist(<<PaddedLine, CommentLine>>)
    /\ whitelist_bytes =
          {Encode(d) : d \in load_whitelist(<<PaddedLine, CommentLine>>)}
    /\ write_failed = {}
    /\ last_call = NoCall
    /\ ncalls = 0
    /\ NoStream
    /\ FragIdle
    /\ blocked_connections = 0
    /\ ConnIdle
    /\ NoShutdown
    /\ PipeIdle
    /\ pc = "accept"

\* the connection's data paths under the default configuration; no signal
\* is delivered
Init ==
    /\ Accepted
    /\ DefaultConfig
    /\ HealthyOrigin

Next ==
    \/ handle_connection(SmallStreams)
    \/ fragment_data
    \/ pipe
    \/ WdDisabled
    \/ probe_and_maybe_blacklist

Spec == Init /\ [][Next]_vars

\* the connection's life: access log, idle timeouts, signals and shutdown,
\* with a fixed blacklist and a client that sends little
InitLife ==
    /\ Accepted
    /\ auto_blacklist = FALSE
    /\ log_access_file \in BOOLEAN
    /\ idle_timeout \in IdleTimeouts
    /\ HealthyOrigin

NextLife ==
    \/ handle_connection(TinyStreams)
    \/ H_Cancelled
    \/ fragment_data
    \/ pipe
    \/ idle_watchdog
    \/ Tick
    \/ signal_handler
    \/ shutdown

SpecLife == InitLife /\ [][NextLife]_vars

\* auto-blacklist mode: the connection of a client that sends little, to a
\* host whose port 443 answers a probe in any of the ways
InitProbe ==
    /\ Accepted
    /\ auto_blacklist = TRUE
    /\ DefaultConfig
    /\ origin_tls \in ProbeOutcomes

NextProbe ==
    \/ handle_connection(TinyStreams)
    \/ fragment_data
    \/ pipe
    \/ WdDisabled
    \/ probe_and_maybe_blacklist

SpecProbe == InitProbe /\ [][NextProbe]_vars

\* one copy task on its own: it starts with what the handler's drained
\* writes have left in the buffer of its writer
InitPipe ==
    /\ FixedStore
    /\ NoStream
    /\ FragIdle
    /\ blocked_connections = 0
    /\ ConnIdle
    /\ NoShutdown
    /\ DefaultConfig
    /\ HealthyOrigin
    /\ pc = "none"
    /\ pipe_pc = "loop"
    /\ write_buffer \in {0, transport_low, transport_high}
    /\ paused = FALSE
    /\ nreads = 0

NextPipe == pipe_write_buffer \/ TransportSend

SpecPipe == InitPipe /\ [][NextPipe]_vars

(***************************************************************************)
(* Filter store: properties                                                *)
(***************************************************************************)
\* p is a line of the file (surrounding blanks aside, as the loaders read it)
OnDisk(p, disk) == \E i \in 1..Len(disk) : strip(disk[i]) = p

NoDuplicates(seq) == \A i, j \in 1..Len(seq) : i # j => seq[i] # seq[j]

\* C1: whitelist precedence.  In every reachable store state a host that
\* is_whitelisted reports as whitelisted is reported as not blacklisted,
\* with or without the bytes form of the host, whatever the blacklist holds.
C1_WhitelistPrecedence ==
    \A h \in Hosts :
        /\ is_whitelisted(h, Encode(h)) => ~is_blacklisted(h, Encode(h))
        /\ is_whitelisted(h, <<>>) => ~is_blacklisted(h, <<>>)

\* a whitelisted host that a blacklist pattern matches, after an insert
C1_Witness ==
    /\ ncalls > 0
    /\ \E h \in Hosts :
          /\ is_whitelisted(h, Encode(h))
          /\ BlockedMatch(h, Encode(h))
          /\ last_call.op = "add_to_blacklist"
          /\ last_call.host = h

\* C2 as stated: after _add_to_blacklist(h) returns, is_blacklisted(h) holds
\* for every host and every prior store state.
C2_BlacklistedAfterAdd ==
    last_call.op = "add_to_blacklist"
        => is_blacklisted(last_call.host, last_call.host_bytes)

\* C2 amended: after _add_to_blacklist(h) returns, is_blacklisted(h) holds
\* for every host h that the whitelist does not match, whether the append to
\* the blacklist file succeeded or failed.
C2_BlacklistedAfterAddUnlessWhitelisted ==
    (/\ last_call.op = "add_to_blacklist"
     /\ ~is_whitelisted(last_call.host, last_call.host_bytes))
        => is_blacklisted(last_call.host, last_call.host_bytes)

\* an insert of a host not whitelisted whose file append failed
C2_Witness ==
    /\ last_call.op = "add_to_blacklist"
    /\ ~is_whitelisted(last_call.host, last_call.host_bytes)
    /\ <<"blacklist", last_call.host>> \in write_failed
    /\ ~OnDisk(last_call.host, blacklist_disk)
    /\ is_blacklisted(last_call.host, last_call.host_bytes)

\* C3: no pattern appears twice in the in-memory blacklist (str and bytes
\* forms), in any reachable state.  (The whitelist is a set of the language
\* and holds no pattern twice by construction.)
C3_NoPatternTwice ==
    /\ NoDuplicates(blocked)
    /\ NoDuplicates(blocked_bytes)

\* C4 as stated: every in-memory pattern is a line of its file, and each step
\* leaves the files alone or appends one line that is neither blank nor a
\* comment.
C4_AppendsPlainLine(old, new) ==
    \/ new = old
    \/ /\ Len(new) = Len(old) + 1
       /\ SubSeq(new, 1, Len(old)) = old
       /\ strip(new[Len(new)]) # <<>>
       /\ ~startswith(new[Len(new)], <<"#">>)

C4_MemoryOnDisk ==
    /\ [](/\ \A i \in 1..Len(blocked) : OnDisk(blocked[i], blacklist_disk)
          /\ \A p \in whitelist : OnDisk(p, whitelist_disk))
    /\ [][/\ C4_AppendsPlainLine(blacklist_disk, blacklist_disk')
          /\ C4_AppendsPlainLine(whitelist_disk, whitelist_disk')]_vars

\* C4 amended: every in-memory pattern is a line of its file unless its
\* append failed or its list has no file (a whitelist without a path), and
\* each step leaves the files alone or appends exactly one line, the host
\* inserted into the in-memory list by that step.
C4_MemoryOnDiskUnlessFailed ==
    /\ [](/\ \A i \in 1..Len(blocked) :
                \/ OnDisk(blocked[i], blacklist_disk)
                \/ <<"blacklist", blocked[i]>> \in write_failed
          /\ whitelist_file =>
                \A p \in whitelist :
                    \/ OnDisk(p, whitelist_disk)
                    \/ <<"whitelist", p>> \in write_failed)
    /\ [][/\ \/ blacklist_disk' = blacklist_disk
             \/ \E h \in Hosts :
                    /\ blacklist_disk' = Append(blacklist_disk, h)
                    /\ blocked' = Append(blocked, h)
          /\ \/ whitelist_disk' = whitelist_disk
             \/ \E h \in Hosts :
                    /\ whitelist_disk' = Append(whitelist_disk, h)
                    /\ h \notin whitelist
                    /\ whitelist' = whitelist \cup {h}]_vars

\* one insert was appended to the blacklist file and another one was lost
C4_Witness ==
    /\ \E i \in 1..Len(blocked) :
          /\ ~OnDisk(blocked[i], blacklist_disk)
          /\ <<"blacklist", blocked[i]>> \in write_failed
    /\ last_call.op = "add_to_blacklist"
    /\ blocked # <<>>
    /\ blocked[Len(blocked)] = last_call.host
    /\ blacklist_disk # <<>>
    /\ blacklist_disk[Len(blacklist_disk)] = last_call.host

(***************************************************************************)
(* Fragmenter: properties                                                  *)
(***************************************************************************)
RECURSIVE Flatten(_)
Flatten(ss) == IF ss = <<>> THEN <<>> ELSE Head(ss) \o Flatten(Tail(ss))

\* the payload of a written record: what follows its 5-byte header
Payload(w) == SliceFrom(w, 5)

Payloads(ws) == [i \in 1..Len(ws) |-> Payload(ws[i])]

\* w is a record with the synthetic header and a matching length field
WellFramed(w) ==
    /\ Len(w) >= 5
    /\ SubSeq(w, 1, 3) = <<22, 3, 4>>
    /\ w[4] * 256 + w[5] = Len(w) - 5

\* the body the client sent behind its record header
SentBody == Slice(client_sent, 5, 5 + rec_len(head))

\* C5: fragmentation round trip.  Once fragment_data has returned True, the
\* payloads of the records it wrote, concatenated in write order, are the
\* body the client sent, byte for byte; before that the payloads written so
\* far followed by the chunks still to be sent are that body; and at every
\* moment each written record's length field equals the length of its payload.
C5_RoundTrip ==
    /\ (head # <<>> /\ head[1] = 22) =>
          /\ \A i \in 1..Len(remote_written) : WellFramed(remote_written[i])
          /\ Flatten(Payloads(remote_written)) \o Flatten(chunks) = body
    /\ (fpc = "send" \/ frag_ret = "True") => body = SentBody
    /\ frag_ret = "True" => Flatten(Payloads(remote_written)) = SentBody

\* a body of more than 512 bytes without 0x00 went out in three records
C5_Witness ==
    /\ frag_ret = "True"
    /\ Len(body) > 512
    /\ find_nul(body) < 0
    /\ Len(remote_written) = 3
    /\ Flatten(Payloads(remote_written)) = SentBody

\* C6 as stated: a handshake record always goes out as 2 or 3 records, each
\* a non-empty chunk behind the synthetic header.
C6_TwoOrThreeRecords ==
    frag_ret = "True" =>
        /\ Len(remote_written) \in 2..3
        /\ \A i \in 1..Len(remote_written) :
              WellFramed(remote_written[i]) /\ Len(remote_written[i]) > 5

\* C6 amended: a handshake record goes out as at most 3 records, each a
\* non-empty chunk behind the synthetic header; as at least 2 unless the body
\* has fewer than 2 bytes or its first 0x00 is its last byte, and then as one
\* record holding the whole body (as none when the body is empty).
C6_UpToThreeRecords ==
    frag_ret = "True" =>
        /\ Len(remote_written) <= 3
        /\ \A i \in 1..Len(remote_written) :
              WellFramed(remote_written[i]) /\ Len(remote_written[i]) > 5
        /\ IF Len(body) < 2 \/ find_nul(body) = Len(body) - 1
           THEN remote_written = IF body = <<>> THEN <<>> ELSE <<frame(body)>>
           ELSE Len(remote_written) >= 2

\* a body whose only 0x00 is its last byte went out as one record
C6_Witness ==
    /\ frag_ret = "True"
    /\ Len(body) >= 2
    /\ find_nul(body) = Len(body) - 1
    /\ remote_written = <<frame(body)>>

\* C7 as stated: with z the first 0x00 of the body, the origin receives
\* frame(B[0:z+1]) followed by frame(B[z+1:]), for every z.
C7_SplitBehindNul ==
    (frag_ret = "True" /\ find_nul(body) >= 0) =>
        Flatten(remote_written) =
            frame(Slice(body, 0, find_nul(body) + 1))
                \o frame(SliceFrom(body, find_nul(body) + 1))

\* the size-based split of a body without 0x00: two halves up to 512 bytes,
\* beyond that a first record of 32..128 bytes, a second of 128..512 bytes
\* (or what is left, if less) and a third with the rest if there is any
SizeBasedSplit ==
    LET n == Len(body)
        ps == Payloads(remote_written)
    IN  IF n <= 512
        THEN n >= 2 =>
               ps = <<Slice(body, 0, Max(1, n \div 2)),
                      SliceFrom(body, Max(1, n \div 2))>>
        ELSE /\ Len(ps) \in 2..3
             /\ Len(ps[1]) \in 32..128
             /\ \/ Len(ps[2]) \in 128..512 /\ Len(ps) = 3
                \/ Len(ps[2]) \in 1..512 /\ Len(ps) = 2
             /\ Flatten(ps) = body

\* C7 amended: with z the first 0x00 of the body, the origin receives
\* frame(B[0:z+1]) followed by frame(B[z+1:]) when z < len(B)-1 and
\* frame(B) alone when z = len(B)-1 (no record is written for the empty
\* remainder); a body without 0x00 is split by size.
C7_SplitBehindNulUnlessLast ==
    frag_ret = "True" =>
        IF find_nul(body) >= 0
        THEN Flatten(remote_written) =
               IF find_nul(body) < Len(body) - 1
               THEN frame(Slice(body, 0, find_nul(body) + 1))
                        \o frame(SliceFrom(body, find_nul(body) + 1))
               ELSE frame(body)
        ELSE SizeBasedSplit

\* a body with its first 0x00 in the middle went out split behind it
C7_Witness ==
    /\ frag_ret = "True"
    /\ find_nul(body) > 0
    /\ find_nul(body) < Len(body) - 1
    /\ remote_written = <<frame(Slice(body, 0, find_nul(body) + 1)),
                          frame(SliceFrom(body, find_nul(body) + 1))>>

\* C8: a handshake record whose length field is 0 is passed on as it is: the
\* 5-byte header is written through, no synthetic record is made, and the
\* connection is neither reported nor counted as fragmented.
C8_EmptyRecordIsNoOp ==
    (fpc = "done" /\ head # <<>> /\ head[1] = 22 /\ rec_len(head) = 0) =>
        /\ remote_written = <<head>>
        /\ frag_ret # "True"
        /\ blocked_connections = 0

\* C9: when byte 0 of the first 5 bytes is not 0x16, fragment_data writes
\* once, those 5 bytes followed by what one further read returned, reports
\* fragmented=false and leaves the fragmented counter alone; when that write
\* fails nothing is written and nothing is reported as fragmented either.
C9_PassThrough ==
    (fpc = "done" /\ head # <<>> /\ head[1] # 22) =>
        /\ blocked_connections = 0
        /\ frag_ret \in {"False", "FragmentationException"}
        /\ frag_ret = "False" =>
              /\ remote_written = <<SliceTo(client_sent, 5 + bufsize)>>
              /\ cbuf = SliceFrom(client_sent, 5 + bufsize)
        /\ frag_ret = "FragmentationException" => remote_written = <<>>

\* a non-handshake record with bytes behind its header was passed through
C9_Witness ==
    /\ fpc = "done"
    /\ head # <<>>
    /\ head[1] # 22
    /\ frag_ret = "False"
    /\ Len(client_sent) > 5
    /\ remote_written = <<client_sent>>

(***************************************************************************)
(* Handler: properties                                                     *)
(***************************************************************************)
\* C10: when fragment_data fails on a tunnel, the handler closes the tunnel:
\* it goes to its closing step without creating the two copy tasks, and no
\* byte of the client is written to the origin afterwards.
C10_FragFailureCloses ==
    frag_ret = "FragmentationException" =>
        /\ pc # "piping"
        /\ t1 = "none"
        /\ t2 = "none"

(***************************************************************************)
(* Handler: replies, counters and the access log                           *)
(***************************************************************************)
Reply502 == "HTTP/1.1 502 Bad Gateway\r\n\r\n"

\* what conn_info.error holds after a failed dial
DialErrors == {"Remote connection timeout", "Remote connection failed"}

HttpDialFailed == method = "GET" /\ conn_info.error \in DialErrors

ConnectDialFailed == method = "CONNECT" /\ conn_info.error \in DialErrors

\* the handler of a CONNECT has got as far as dialling the origin
DialAttempted ==
    /\ method = "CONNECT"
    /\ pc = "dial" \/ remote_writer # "none" \/ ConnectDialFailed

\* C11: a plain HTTP request whose dial failed is answered with exactly the
\* 502 line, then the connection is closed, and the failed counter has gone
\* up by exactly 1.
C11_Http502OnDialFailure ==
    (HttpDialFailed /\ pc = "closed") =>
        /\ client_replies = <<Reply502>>
        /\ client_writer = "closed"
        /\ failed_connections = 1

\* C12: a CONNECT handler that has got to its dial has written exactly the
\* 200 line; when the dial failed the client is sent nothing else and is
\* closed, fragment_data was never called, no copy task was created, and the
\* failed counter has gone up by exactly 1.
C12_ReplyBeforeDial ==
    /\ DialAttempted => client_replies = <<Reply200>>
    /\ ConnectDialFailed =>
          /\ client_replies = <<Reply200>>
          /\ client_written = <<>>
          /\ fpc = "idle" /\ frag_ret = "none"
          /\ t1 = "none" /\ t2 = "none"
          /\ failed_connections = 1
    /\ (ConnectDialFailed /\ pc = "closed") => client_writer = "closed"

\* a CONNECT whose dial failed has been closed
C12_Witness ==
    /\ ConnectDialFailed
    /\ pc = "closed"
    /\ client_replies = <<Reply200>>
    /\ failed_connections = 1

\* C13: a connection that has been closed has left exactly one access-log
\* record when access logging is enabled and none when it is disabled.
C13_OneAccessLogRecord ==
    pc = "closed" => access_log = (IF log_access_file THEN 1 ELSE 0)

(***************************************************************************)
(* Tunnel: delivery                                                        *)
(***************************************************************************)
IsPrefix(s, t) == Len(s) <= Len(t) /\ s = SubSeq(t, 1, Len(s))

\* what a write on remote_writer carries of the client's bytes: the payload
\* of a record that fragment_data framed, else the write itself
Carried(w) == IF WellFramed(w) THEN Payload(w) ELSE w

\* fragment_data has replaced the client's record header by its own
Reframed == \E i \in 1..Len(remote_written) : WellFramed(remote_written[i])

\* C14: on a CONNECT tunnel the bytes written to the origin are, in order
\* and once each, the bytes the client sent (the header of a record that was
\* re-framed aside): what the origin has got is a prefix of what the client
\* sent.
C14_ClientToOriginPreserved ==
    method = "CONNECT" =>
        IsPrefix(Flatten([i \in 1..Len(remote_written) |->
                             Carried(remote_written[i])]),
                 IF Reframed THEN SliceFrom(client_sent, 5) ELSE client_sent)

\* C15: when the client has only ended its own sending direction, the
\* origin->client copy is not cancelled before every byte the origin sent
\* has been written to the client, in order and once each.
C15_OriginToClientPreserved ==
    /\ IsPrefix(Flatten(client_written), origin_sent)
    /\ (cend = "eof" /\ t2 = "cancelled") =>
          Flatten(client_written) = origin_sent

(***************************************************************************)
(* Auto-probe: launch                                                      *)
(***************************************************************************)
\* C20: a probe task exists only for a CONNECT, in auto-blacklist mode, to a
\* host that is neither whitelisted nor blacklisted.
C20_ProbeOnlyForUnclassifiedConnect ==
    probe_pc # "none" =>
        /\ method = "CONNECT"
        /\ auto_blacklist
        /\ ~is_whitelisted(host_str, Encode(host_str))
        /\ ~is_blacklisted(host_str, Encode(host_str))

(***************************************************************************)
(* Idle watchdog                                                           *)
(***************************************************************************)
BothClosed == client_writer = "closed" /\ remote_writer = "closed"

\* C16: the watchdog of a connection closes the writers for idleness at most
\* once, however its steps interleave with the copy tasks, the handler's
\* cancellation of it and shutdown.
C16_WatchdogFiresOnce == wd_fired <= 1

\* the watchdog has fired and the connection has been closed since
C16_Witness ==
    /\ wd_fired = 1
    /\ wd = "done"
    /\ pc = "closed"

\* C17: with idle_timeout > 0, a connection whose copy tasks were started is
\* never found more than idle_timeout + 1 seconds after its last successful
\* read with a writer still open, and a watchdog that has fired has closed
\* both writers of a connection idle for more than idle_timeout; with
\* idle_timeout <= 0 the watchdog never fires.
C17_IdleClose ==
    /\ (idle_timeout > 0 /\ pc = "piping"
            /\ now - last_activity > idle_timeout + 1) => BothClosed
    /\ wd_fired > 0 =>
          /\ idle_timeout > 0
          /\ BothClosed
          /\ now - last_activity > idle_timeout
    /\ idle_timeout <= 0 => wd_fired = 0

\* the watchdog has closed both writers at the first check behind the deadline
C17_Witness ==
    /\ idle_timeout > 0
    /\ pc = "piping"
    /\ wd_fired = 1
    /\ now - last_activity = idle_timeout + 1
    /\ BothClosed

(***************************************************************************)
(* Shutdown                                                                *)
(***************************************************************************)
\* C18: whatever the number and the timing of the signals, the shutdown body
\* is entered at most once, and exactly once as soon as a signal's shutdown
\* task has run: the listener is closed once, the final statistics are
\* printed once, and _shutdown_complete is set by that one body.
C18_ShutdownOnce ==
    /\ sd_bodies <= 1
    /\ final_stats <= 1
    /\ shutdown_event <=> sd_bodies = 1
    /\ (signals > 0 /\ sd_pending = 0) => sd_bodies = 1
    /\ sd_bodies = 0 =>
          server = "listening" /\ final_stats = 0 /\ ~shutdown_complete
    /\ shutdown_complete =>
          server = "closed" /\ final_stats = 1 /\ sd_pc = "done"

\* two signals came before the first shutdown task ran; the second task
\* returned at once and the first one completed the shutdown
C18_Witness ==
    /\ signals >= 2
    /\ sd_ignored >= 1
    /\ sd_pending = 0
    /\ sd_bodies = 1
    /\ shutdown_complete

\* C19: once shutdown has completed, the handler of the connection accepted
\* before the signal has ended, its copy tasks and its watchdog have ended,
\* and both of its sockets are closed.
C19_ShutdownLeaksNothing ==
    shutdown_complete =>
        /\ pc = "closed"
        /\ t1 # "run" /\ t2 # "run"
        /\ wd \notin {"run", "sleeping"}
        /\ client_writer = "closed"
        /\ remote_writer # "open"

(***************************************************************************)
(* Auto-probe: verdict                                                     *)
(***************************************************************************)
\* C21: when the probe of a host has finished, the host is in the whitelist
\* and not in the blacklist if the handshake completed; it is in the
\* blacklist, in memory and in the file, and not in the whitelist if the
\* probe ended in a timeout, a TLS or certificate error or a connection
\* failure; after any other error it is in neither list.
C21_ProbeVerdict ==
    probe_pc = "returned" =>
        /\ origin_tls = "handshake" =>
              /\ host_str \in whitelist
              /\ ~Contains(blocked, host_str)
        /\ origin_tls \in {"timeout", "ssl_error", "os_error"} =>
              /\ Contains(blocked, host_str)
              /\ Contains(blocked_bytes, probe_host)
              /\ OnDisk(host_str, blacklist_disk)
              /\ host_str \notin whitelist
        /\ origin_tls = "other_error" =>
              /\ host_str \notin whitelist
              /\ ~Contains(blocked, host_str)

\* the probe task takes its step
ProbeStep == probe_pc = "started" /\ probe_pc' = "returned"

\* C22: the probe never affects the tunnel that started it: its step changes
\* nothing of the connection, the handler is not held up at the fragmenting
\* decision while the probe runs, and once the probe exists the whitelisted
\* flag stays what it was and decides alone whether the fragmenter is called.
C22_ProbeLeavesTunnelAlone ==
    [][ /\ ProbeStep =>
              UNCHANGED <<connVars, fragVars, streamVars, reqVars, idleVars>>
        /\ probe_pc # "none" =>
              /\ is_wl' = is_wl
              /\ conn_info'.whitelisted = conn_info.whitelisted
        /\ (probe_pc = "started" /\ pc = "fragment") => ENABLED H_CallFragment
        /\ (probe_pc # "none" /\ pc = "fragment" /\ pc' # "fragment") =>
              ((pc' = "in_fragment") <=> ~conn_info.whitelisted)
      ]_vars

\* a tunnel was fragmented and has ended while its probe has not yet run
C22_Witness ==
    /\ probe_pc = "started"
    /\ pc = "closed"
    /\ conn_info.fragmented
    /\ ~conn_info.whitelisted

(***************************************************************************)
(* Statistics                                                              *)
(***************************************************************************)
\* no handler is between its first and its last statement
NoneInFlight == pc \in {"accept", "closed"} /\ active_connections = {}

\* C23: whenever no connection is in flight, total_connections is the sum of
\* allowed_connections and blocked_connections.
C23_TotalIsAllowedPlusBlocked ==
    NoneInFlight => total_connections = allowed_connections + blocked_connections

(***************************************************************************)
(* Lookups: wildcard entries                                               *)
(***************************************************************************)
\* h is d itself or a subdomain of d
SubdomainOrSelf(h, d) == h = d \/ endswith(h, <<".">> \o d)

\* C24: an entry "*.d" of the whitelist or of the blacklist matches a host h
\* exactly when h is d or ends with "." followed by d; a host that merely
\* ends with the characters of d is not matched.
C24_WildcardSubdomainsOnly ==
    \A pat \in whitelist \cup SeqToSet(blocked) :
        startswith(pat, <<"*", ".">>) =>
            \A h \in Hosts :
                WildcardMatch(h, pat) <=> SubdomainOrSelf(h, SliceFrom(pat, 2))

(***************************************************************************)
(* Handler: client protocol errors                                         *)
(***************************************************************************)
\* the handler of a request that is not a CONNECT and has no Host header has
\* ended (a bad port is counted in failed_connections, this error is not)
MissingHostClosed ==
    /\ pc = "closed"
    /\ method = "GET"
    /\ host_str = <<>>
    /\ failed_connections = 0

\* C25: a request that is not a CONNECT and has no Host header closes the
\* connection without a dial, with the error kept in the connection record
\* and with a reply written to the client before the close.
C25_ProtocolErrorRecorded ==
    MissingHostClosed =>
        /\ remote_writer = "none"
        /\ remote_written = <<>>
        /\ conn_info.made
        /\ conn_info.error # ""
        /\ client_replies # <<>>

(***************************************************************************)
(* Handler: the end of the copy phase                                      *)
(***************************************************************************)
\* one of the two copy tasks has ended, by itself or by cancellation
CopyEnded == t1 \in {"done", "cancelled"} \/ t2 \in {"done", "cancelled"}

\* none of the connection's three tasks is running
NoTaskRunning ==
    /\ t1 # "run"
    /\ t2 # "run"
    /\ wd \notin {"run", "sleeping"}

\* C26: while the handler waits on the copy tasks and one of them has ended,
\* the handler can go on, and the only place it leaves the wait for is its
\* finally block; the step of the finally block leaves none of the two copy
\* tasks and the watchdog running, and none runs once the handler has
\* returned.
C26_FirstCompletedCancelsRest ==
    /\ [](pc = "closed" => NoTaskRunning)
    /\ []((pc = "piping" /\ CopyEnded) => ENABLED H_FirstCompleted)
    /\ [][ /\ (pc = "piping" /\ pc' # "piping") => pc' = "finally"
           /\ (pc = "finally" /\ pc' = "closed") => NoTaskRunning'
         ]_vars

\* a copy task ended by itself, and the handler has cancelled the other one
\* and the sleeping watchdog and has returned
C26_Witness ==
    /\ pc = "closed"
    /\ t1 = "done"
    /\ t2 = "cancelled"
    /\ wd = "cancelled"
    /\ ~shutdown_event

(***************************************************************************)
(* Handler: the fragmenting decision                                       *)
(***************************************************************************)
\* fragment_data has been called on the connection
FragmenterInvoked == fpc # "idle"

\* the handler of a CONNECT has its connection to the origin
ConnectDialled == method = "CONNECT" /\ remote_writer # "none"

\* C27: fragment_data is called on a connection exactly when the request is
\* a CONNECT, the dial succeeded and the host is not whitelisted; on a
\* whitelisted CONNECT the origin gets the client's bytes as they were sent,
\* header included, whitelisted_connections is 1 and blocked_connections
\* stays 0.
C27_FragmentUnlessWhitelisted ==
    /\ FragmenterInvoked => (ConnectDialled /\ ~conn_info.whitelisted)
    /\ (ConnectDialled /\ ~conn_info.whitelisted /\ pc # "fragment") =>
          FragmenterInvoked
    /\ (method = "CONNECT" /\ conn_info.whitelisted) =>
          /\ IsPrefix(Flatten(remote_written), client_sent)
          /\ whitelisted_connections = 1
          /\ blocked_connections = 0

\* a whitelisted tunnel has carried a whole handshake record with a body to
\* the origin
C27_Witness ==
    /\ method = "CONNECT"
    /\ conn_info.whitelisted
    /\ Len(client_sent) > 5
    /\ client_sent[1] = 22
    /\ rec_len(client_sent) = Len(client_sent) - 5
    /\ Flatten(remote_written) = client_sent
    /\ pc = "closed"

(***************************************************************************)
(* Registry and failure counter                                            *)
(***************************************************************************)
\* the handler has executed its first statement and not yet its last
HandlerRunning == pc \notin {"none", "accept", "closed"}

\* C29: the registry holds the connection's entry exactly while its handler
\* runs, and an entry is removed by that handler's finally block only.
C29_RegistryMatchesHandlers ==
    /\ [](HandlerRunning <=> Conn \in active_connections)
    /\ [][(Conn \in active_connections /\ Conn \notin active_connections') =>
              (pc = "finally" /\ pc' = "closed")]_vars

\* C30: failed_connections goes up by at most 1 for a connection, whichever
\* way the connection fails.
C30_FailedCountedOnce == failed_connections <= 1

(***************************************************************************)
(* pipe: backpressure                                                      *)
(***************************************************************************)
\* C28: a copy task is never at its next read with more than high_water
\* bytes pending in its writer (it is in drain() until the buffer has gone
\* down), and the pending bytes never exceed high_water plus one chunk of
\* bufsize bytes.
C28_Backpressure ==
    /\ pipe_pc = "loop" => write_buffer <= high_water
    /\ write_buffer > high_water => (pipe_pc \in {"drain", "done"} /\ paused)
    /\ write_buffer <= high_water + bufsize

\* the buffer is as full as it gets and the copy task waits in drain()
C28_Witness ==
    /\ pipe_pc = "drain"
    /\ write_buffer = high_water + bufsize

(***************************************************************************)
(* Handler: termination                                                    *)
(***************************************************************************)
\* something of the connection can take a step by itself: the handler, the
\* fragmenter it awaits, a copy task or the watchdog (each timeout of the
\* code is a step of the task that waits under it)
ConnectionCanMove ==
    ENABLED (handle_connection(SmallStreams) \/ fragment_data \/ pipe
                \/ WdDisabled)

\* the handler waits, and nothing but the client, the origin or a signal
\* can end the wait
StuckForever == pc # "closed" /\ ~ConnectionCanMove

\* C31: an accepted connection is never stuck: as long as its handler has
\* not returned, some wait of the connection ends by itself, whatever the
\* client and the origin do; the handler that has returned has closed both
\* sockets.
C31_EveryWaitIsBounded ==
    /\ ~StuckForever
    /\ pc = "closed" =>
          (client_writer = "closed" /\ remote_writer \in {"none", "closed"})

(***************************************************************************)
(* Tunnel: inactivity                                                      *)
(***************************************************************************)
\* the step in which the client->origin copy task ends for lack of data and
\* for nothing else: the client is silent and has neither closed nor reset,
\* nothing is left to read, the task's writer is open and shutdown_event is
\* not set, so that of the ways out of the loop only the TimeoutError of
\* wait_for(reader.read(...), timeout=30) is left
OutReadTimedOut ==
    /\ t1 = "run"
    /\ t1' = "done"
    /\ cbuf = <<>>
    /\ cend = "silent"
    /\ remote_writer = "open"
    /\ ~shutdown_event

\* C32: a tunnel is ended for lack of traffic only when the idle timeout is
\* enabled and nothing was read in either direction for more than
\* idle_timeout seconds; a copy task whose own direction is silent does not
\* end by itself (its end ends the tunnel: the handler waits for the first
\* copy task to complete).
C32_IdleTimeoutOnlyLimit ==
    [][OutReadTimedOut =>
          (idle_timeout > 0 /\ idle_expired(now, last_activity, idle_timeout))
      ]_vars

====
